---- MODULE Spec2Model ----
(***************************************************************************)
(* Job-lifecycle orchestration and tunnel management of Kamiak-GUI.        *)
(*                                                                         *)
(* One session of one job kind is modelled: the manager component          *)
(* (LLMManager or NotebookManager), the server actions it calls            *)
(* (llm-actions / notebook-actions), the module-level tunnelProcess        *)
(* handle, the tunnel subprocesses and the cluster scheduler.              *)
(* A server action call is a record in calls: the client issues it, the    *)
(* server executes it in one or more steps, and the client continuation    *)
(* resumes with its return value.                                          *)
(***************************************************************************)
EXTENDS Integers, Sequences, FiniteSets, Bags, TLC

\* Bounds of the model
MaxSubmits == 2     \* submissions started in one run
MaxProcs == 2       \* tunnel subprocesses spawned in one run
MaxCalls == 2       \* server action calls in flight at the same time
MaxConns == 3       \* local connections accepted by one tunnel script
MaxTokens == 3      \* tokens in the output of one scheduler query
MaxClock == 2       \* milliseconds that pass on the server clock
MaxSends == 3       \* calls of handleSend in one chat

VARIABLES
    kind,           \* "llm" (LLMManager, rag_app) or "notebook" (NotebookManager, notebook_llm)
    jobs,           \* scheduler: sequence of [name, st, node]; the job id is the index
    tunnelProcess,  \* the module's tunnel handle: 0 (null) or an index of procs
    procs,          \* tunnel subprocesses spawned so far
    calls,          \* server action calls in flight (a bag of call records)
    status,         \* useState status of the manager component
    jobId,          \* LLMManager: useState jobId (<<>> is null)
    node,           \* LLMManager: useState node ("" is null)
    error,          \* LLMManager: useState error
    starting,       \* NotebookManager: useState starting
    stopping,       \* NotebookManager: useState stopping
    pollInterval,   \* NotebookManager: the job ids polled by live setInterval timers
    submits,        \* number of submissions started
    script,         \* one run of public/tunnel_script.js, with its connections
    query,          \* one run of checkLLMJobStatus / checkNotebookJobStatus on given outputs
    remote,         \* the remote shell: clock, files and the commands of the submissions
    chat,           \* ChatInterface: messages, input, loading and the query in flight
    mounted         \* LLMManager is mounted

vars == <<kind, jobs, tunnelProcess, procs, calls, status, jobId, node, error,
          starting, stopping, pollInterval, submits, script, query, remote, chat, mounted>>

\* the parts of the state that are followed one at a time
units == <<script, query, remote, chat, mounted>>

----------------------------------------------------------------------------
\* Values

NoJobId == <<>>         \* null / undefined job id
NoNode == ""            \* null / undefined node
NoError == ""           \* undefined error

Digit == {"0", "1", "2", "3", "4", "5", "6", "7", "8", "9"}
DigitChar(d) == <<"0", "1", "2", "3", "4", "5", "6", "7", "8", "9">>[d + 1]

\* decimal digits of a job number, as the scheduler prints it
RECURSIVE Digits(_)
Digits(n) ==
    IF n < 10 THEN <<DigitChar(n)>> ELSE Digits(n \div 10) \o <<DigitChar(n % 10)>>

Whitespace == {" ", "\n"}
AckPhrase == "Submitted batch job "

JobName(k) == IF k = "llm" THEN "rag_app" ELSE "notebook_llm"
ServicePort(k) == IF k = "llm" THEN "5000" ELSE "5001"

NonTerminal == {"PENDING", "RUNNING"}
Terminal == {"COMPLETED", "FAILED", "CANCELLED", "TIMEOUT", "NODE_FAIL"}
Nodes == {"node42"}

\* the credentials of the session (password login)
credentials == [host |-> "kamiak.wsu.edu", username |-> "user", password |-> "pw",
                privateKey |-> ""]

----------------------------------------------------------------------------
\* Text handling of the server actions.  An acknowledgement text is a sequence
\* of symbols (a digit character or a chunk of other text); a queue text is a
\* sequence of tokens (a word or a whitespace token).

\* the longest run of digits at the head of s: the group (\d+)
RECURSIVE DigitRun(_)
DigitRun(s) ==
    IF s # <<>> /\ Head(s) \in Digit THEN <<Head(s)>> \o DigitRun(Tail(s)) ELSE <<>>

\* stdout.match(/Submitted batch job (\d+)/): match[1], or <<>> without a match
RECURSIVE MatchJobId(_)
MatchJobId(stdout) ==
    IF stdout = <<>> THEN NoJobId
    ELSE IF Head(stdout) = AckPhrase /\ DigitRun(Tail(stdout)) # <<>>
         THEN DigitRun(Tail(stdout))
         ELSE MatchJobId(Tail(stdout))

\* String.prototype.trim on a token sequence
RECURSIVE TrimLeft(_)
TrimLeft(s) == IF s # <<>> /\ Head(s) \in Whitespace THEN TrimLeft(Tail(s)) ELSE s
RECURSIVE TrimRight(_)
TrimRight(s) ==
    IF s # <<>> /\ s[Len(s)] \in Whitespace THEN TrimRight(SubSeq(s, 1, Len(s) - 1)) ELSE s
Trim(s) == TrimRight(TrimLeft(s))

\* split(/\s+/) of a trimmed token sequence: the words between whitespace runs
RECURSIVE Split(_)
Split(s) ==
    IF s = <<>> THEN <<>>
    ELSE IF Head(s) \in Whitespace THEN Split(Tail(s))
    ELSE <<Head(s)>> \o Split(Tail(s))

\* The return value of a server action, all actions in one shape
Ret(ok, id, st, nd, err) ==
    [success |-> ok, jobId |-> id, state |-> st, node |-> nd, error |-> err]
NoRet == Ret(FALSE, NoJobId, "", NoNode, NoError)

\* the outcome of one executeCommand: a thrown connection error, or stdout, stderr, code
Outcome(thrown, code, stdout, stderr) ==
    [thrown |-> thrown, code |-> code, stdout |-> stdout, stderr |-> stderr]
\* a thrown error carries its message in stderr
ConnectionError == Outcome(TRUE, 0, <<>>, "Connection failed")

\* submitLLMJob / submitNotebookJob from the result of the submit command on
\* (dflt: the action's own message for an empty stderr)
submitResult(out, dflt) ==
    IF out.thrown THEN Ret(FALSE, NoJobId, "", NoNode, out.stderr)
    ELSE IF out.code # 0
         THEN Ret(FALSE, NoJobId, "", NoNode, IF out.stderr # "" THEN out.stderr ELSE dflt)
         ELSE Ret(TRUE, MatchJobId(out.stdout), "", NoNode, NoError)

\* an empty live queue reported as a job that is not found
emptyLiveNotFound == Ret(FALSE, NoJobId, "", NoNode, "Job not found")

\* if (!output) return { success: true, state: 'COMPLETED', node: null }
emptyLive == Ret(TRUE, NoJobId, "COMPLETED", NoNode, NoError)

\* the second word taken as the node whatever it is
nodeTokenRaw(words) == IF Len(words) >= 2 THEN words[2] ELSE NoNode

\* node === '(N/A)' ? null : node, where node is the second word or undefined
nodeToken(words) == IF Len(words) >= 2 /\ words[2] # "(N/A)" THEN words[2] ELSE NoNode

\* checkLLMJobStatus / checkNotebookJobStatus from the results of the live query
\* and, when it exits non-zero, of the historical query
checkResult(live, hist) ==
    IF live.thrown THEN Ret(FALSE, NoJobId, "", NoNode, live.stderr)
    ELSE IF live.code # 0
         THEN IF hist.thrown THEN Ret(FALSE, NoJobId, "", NoNode, hist.stderr)
              ELSE IF Trim(hist.stdout) # <<>>
                   THEN Ret(TRUE, NoJobId, Split(Trim(hist.stdout))[1], NoNode, NoError)
                   ELSE Ret(FALSE, NoJobId, "", NoNode, "Job not found")
         ELSE LET output == Trim(live.stdout)
                  words == Split(output)
              IN  IF output = <<>> THEN emptyLive
                  ELSE Ret(TRUE, NoJobId, words[1], nodeToken(words), NoError)

----------------------------------------------------------------------------
\* The remote side: what executeCommand can produce for each command

Ack(n) == <<AckPhrase>> \o Digits(n) \o <<"\n">>

\* cat > file; sbatch file; rm file.  sbatch prints the acknowledgement exactly
\* when it created the job; the exit code is that of the last command.
SubmitOutcomes(n) ==
    { ConnectionError,
      Outcome(FALSE, 0, Ack(n), ""),
      Outcome(FALSE, 0, <<>>, "sbatch: error: Batch job submission failed"),
      Outcome(FALSE, 1, <<>>, "sbatch: error: Batch job submission failed"),
      Outcome(FALSE, 1, <<>>, "") }
Created(out) == ~out.thrown /\ MatchJobId(out.stdout) # NoJobId

\* squeue -j <id> --noheader --format="%T %N": one line while the job is in
\* the live queue, nothing once it left it, a non-zero exit when the query fails
LiveLine(job) ==
    <<job.st, " ">> \o (IF job.node # NoNode THEN <<job.node>> ELSE <<>>) \o <<"\n">>
QueryError == Outcome(FALSE, 1, <<>>, "slurm_load_jobs error: Invalid job id specified")
LiveOutcomes(job) ==
    {ConnectionError, QueryError} \cup
    IF job.st \in NonTerminal
    THEN {Outcome(FALSE, 0, LiveLine(job), "")} \cup
         IF job.node = NoNode THEN {Outcome(FALSE, 0, <<job.st, " ", "(N/A)", "\n">>, "")} ELSE {}
    ELSE {Outcome(FALSE, 0, <<>>, "")}

\* sacct -j <id> --noheader --format="State": padded state lines, or nothing
\* while the accounting record does not exist yet
HistOutcomes(job) ==
    { ConnectionError,
      Outcome(FALSE, 0, <<>>, ""),
      Outcome(FALSE, 0, <<" ", job.st, " ", "\n">>, "") }

\* scancel -n <name> -u <user>
CancelOutcomes ==
    { ConnectionError, Outcome(FALSE, 0, <<>>, ""), Outcome(FALSE, 1, <<>>, "scancel: error") }
Cancelled(js, name) ==
    [j \in 1..Len(js) |->
        IF js[j].name = name /\ js[j].st \in NonTerminal
        THEN [js[j] EXCEPT !.st = "CANCELLED"] ELSE js[j]]

\* the job a job id text denotes
JobOfId(id) == CHOOSE j \in 1..Len(jobs) : Digits(j) = id

----------------------------------------------------------------------------
\* Server action calls

Call(op, arg, nd, from) ==
    [op |-> op, ph |-> "sent", arg |-> arg, nd |-> nd, ret |-> NoRet,
     p |-> 0, from |-> from, cancels |-> 0]

InFlight == BagCardinality(calls)
Add(cs, c) == cs (+) SetToBag({c})
Drop(c) == calls (-) SetToBag({c})
Put(c, c2) == Add(Drop(c), c2)
Returned(c, op) == c.op = op /\ c.ph = "done"

\* the number of calls in cs that equal d
Count(cs, d) == IF d \in DOMAIN cs THEN cs[d] ELSE 0
\* call c completed with return value r
Completed(c, r) == [c EXCEPT !.ph = "done", !.ret = r]
\* this step completes call c with return value r
Completes(c, r) ==
    /\ Count(calls', c) < Count(calls, c)
    /\ Count(calls', Completed(c, r)) > Count(calls, Completed(c, r))

\* tunnel_script.js: the positional arguments as the script reads them
scriptArgs(argv) ==
    [host |-> argv[1], username |-> argv[2], password |-> argv[3],
     remoteHost |-> argv[4], remotePort |-> argv[5], localPort |-> argv[6]]

\* startTunnelAction: the arguments after the script path
spawnArgs(k, nodeName) ==
    IF k = "llm"
    THEN <<credentials.host, credentials.username, credentials.password,
           nodeName, "5000", "5000">>
    ELSE <<credentials.host, credentials.username,
           IF credentials.password # "" THEN credentials.password ELSE "null",
           IF credentials.privateKey # "" THEN credentials.privateKey ELSE "null",
           nodeName, "5001", "5001">>

Alive(p) == procs[p].st \in {"starting", "listening"}

\* settle the promise of subprocess p: the call waiting for it returns ret
Settle(cs, p, ret) ==
    IF \E c \in DOMAIN cs : c.ph = "wait" /\ c.p = p
    THEN LET c == CHOOSE c \in DOMAIN cs : c.ph = "wait" /\ c.p = p
         IN  Add(cs (-) SetToBag({c}), [c EXCEPT !.ph = "done", !.ret = ret])
    ELSE cs

\* no run of the tunnel script is followed
NoScript == [ph |-> "none", argv |-> <<>>, code |-> "none", cause |-> "none",
             ssh |-> "none", marker |-> FALSE, socks |-> <<>>, chans |-> <<>>]

\* no status check is followed
NoQuery == [ph |-> "none", live |-> ConnectionError, hist |-> ConnectionError,
            cmds |-> <<>>, ret |-> NoRet, next |-> "queued"]

\* no submission command is followed
NoRemote == [clock |-> 0, files |-> {}, cmds |-> <<>>, log |-> <<>>]

\* no chat is followed
NoChat == [ph |-> "none", messages |-> <<>>, input |-> <<>>, loading |-> FALSE,
           sent |-> <<>>, sends |-> 0, blank |-> 0]

----------------------------------------------------------------------------
Init ==
    /\ kind \in {"llm", "notebook"}
    /\ jobs = <<>>
    /\ tunnelProcess = 0
    /\ procs = <<>>
    /\ calls = EmptyBag
    /\ status = IF kind = "llm" THEN "idle" ELSE "checking"
    /\ jobId = NoJobId
    /\ node = NoNode
    /\ error = NoError
    /\ starting = FALSE
    /\ stopping = FALSE
    /\ pollInterval = {}
    /\ submits = 0
    /\ script = NoScript
    /\ query = NoQuery
    /\ remote = NoRemote
    /\ chat = NoChat
    /\ mounted = TRUE

UnchangedLLM == UNCHANGED <<jobId, node, error>>
UnchangedNB == UNCHANGED <<starting, stopping, pollInterval>>
UnchangedServer == UNCHANGED <<jobs, tunnelProcess, procs, units>>
UnchangedClient ==
    UNCHANGED <<status, jobId, node, error, starting, stopping, pollInterval, submits, units>>

----------------------------------------------------------------------------
\* The scheduler

SchedRun(j) ==
    /\ jobs[j].st = "PENDING"
    /\ \E n \in Nodes : jobs' = [jobs EXCEPT ![j].st = "RUNNING", ![j].node = n]
    /\ UNCHANGED <<kind, tunnelProcess, procs, calls>>
    /\ UnchangedClient

SchedEnd(j) ==
    /\ jobs[j].st \in NonTerminal
    /\ \E t \in Terminal : jobs' = [jobs EXCEPT ![j].st = t]
    /\ UNCHANGED <<kind, tunnelProcess, procs, calls>>
    /\ UnchangedClient

----------------------------------------------------------------------------
\* The tunnel subprocess (public/tunnel_script.js) and the handlers that
\* startTunnelAction attaches to it

\* the listener is bound and the marker line is printed: stdout 'data' handler
ProcReady(p) ==
    /\ procs[p].st = "starting"
    /\ \A q \in 1..Len(procs) : procs[q].st # "listening"
    /\ procs' = [procs EXCEPT ![p].st = "listening",
                              ![p].promise = IF @ = "pending" THEN "resolved" ELSE @]
    /\ calls' = Settle(calls, p, Ret(TRUE, NoJobId, "", NoNode, NoError))
    /\ UNCHANGED <<kind, jobs, tunnelProcess>>
    /\ UnchangedClient

\* the subprocess writes to its error stream: the stderr 'data' handler logs
\* the text and appends it to output
ProcStderr(p) ==
    /\ Alive(p) /\ ~procs[p].stderr
    /\ procs' = [procs EXCEPT ![p].stderr = TRUE]
    /\ UNCHANGED <<kind, jobs, tunnelProcess, calls>>
    /\ UnchangedClient

\* a 'close' handler that resolves the pending promise on exit code 0
onCloseResolves(p, code) ==
    /\ tunnelProcess' = 0
    /\ procs' = [procs EXCEPT ![p].st = "closed",
                              ![p].promise = IF @ = "pending"
                                             THEN (IF code = "0" THEN "resolved" ELSE "rejected")
                                             ELSE @]
    /\ calls' = Settle(calls, p, IF code = "0"
                                 THEN Ret(TRUE, NoJobId, "", NoNode, NoError)
                                 ELSE Ret(FALSE, NoJobId, "", NoNode, "Tunnel process exited"))

\* the 'close' handler: code is 0, 1 or "null" (ended by a signal)
onClose(p, code) ==
    /\ tunnelProcess' = 0
    /\ procs' = [procs EXCEPT ![p].st = "closed",
                              ![p].promise = IF @ = "pending" /\ code # "0" THEN "rejected" ELSE @]
    /\ calls' = IF code # "0"
                THEN Settle(calls, p, Ret(FALSE, NoJobId, "", NoNode, "Tunnel process exited"))
                ELSE calls

\* an exit of the subprocess whose 'close' handler leaves the handle set
ProcExitKeepsHandle(p) ==
    /\ Alive(p)
    /\ procs' = [procs EXCEPT ![p].st = "closed",
                              ![p].promise = IF @ = "pending" THEN "rejected" ELSE @]
    /\ calls' = Settle(calls, p, Ret(FALSE, NoJobId, "", NoNode, "Tunnel process exited"))
    /\ UNCHANGED <<kind, jobs, tunnelProcess>>
    /\ UnchangedClient

\* the subprocess ends by itself, and its 'close' event is delivered
ProcExit(p) ==
    /\ Alive(p)
    /\ \E code \in {"0", "1"} : onClose(p, code)
    /\ UNCHANGED <<kind, jobs>>
    /\ UnchangedClient

\* the 'close' event of a subprocess that kill() ended
ProcClose(p) ==
    /\ procs[p].st = "killed"
    /\ onClose(p, "null")
    /\ UNCHANGED <<kind, jobs>>
    /\ UnchangedClient

\* the body of startTunnelAction, executed for call c.  A subprocess record
\* keeps the state of the promise of the call that spawned it, and as history
\* whether another call returned "already running" while that promise was
\* pending (joined) and whether it was spawned since the last stop
startTunnelAction(c) ==
    /\ c.op = "startTunnelAction" /\ c.ph = "sent"
    /\ IF tunnelProcess # 0
       THEN /\ calls' = Put(c, [c EXCEPT !.ph = "done",
                                      !.ret = Ret(TRUE, NoJobId, "", NoNode, NoError)])
            /\ procs' = [procs EXCEPT ![tunnelProcess].joined =
                                          @ \/ procs[tunnelProcess].promise = "pending"]
            /\ UNCHANGED tunnelProcess
       ELSE /\ Len(procs) < MaxProcs
            /\ procs' = Append(procs, [st |-> "starting",
                                       args |-> spawnArgs(kind, c.nd),
                                       promise |-> "pending", joined |-> FALSE,
                                       sinceStop |-> TRUE, stderr |-> FALSE])
            /\ tunnelProcess' = Len(procs) + 1
            /\ calls' = Put(c, [c EXCEPT !.ph = "wait", !.p = Len(procs) + 1])
    /\ UNCHANGED <<kind, jobs>>
    /\ UnchangedClient

\* tunnelProcess.kill(): a subprocess that already ended ignores the signal
kill(ps, h) ==
    IF ps[h].st \in {"starting", "listening"} THEN [ps EXCEPT ![h].st = "killed"] ELSE ps

\* a stopTunnelAction that kills the subprocess and keeps the handle
stopTunnelKeepsHandle(ps, h) ==
    [procs |-> IF h # 0 THEN kill(ps, h) ELSE ps, handle |-> h]

\* a stopTunnelAction that does nothing
stopTunnelSkipped(ps, h) == [procs |-> ps, handle |-> h]

\* the body of stopTunnelAction on the subprocesses ps and the handle h:
\* the subprocesses and the handle it leaves
stopTunnel(ps, h) ==
    [procs |-> IF h # 0 THEN kill(ps, h) ELSE ps, handle |-> 0]

\* history: no subprocess was spawned since this stopTunnelAction
Forget(ps) == [p \in 1..Len(ps) |-> [ps[p] EXCEPT !.sinceStop = FALSE]]

stopTunnelAction(c) ==
    /\ c.op = "stopTunnelAction" /\ c.ph = "sent"
    /\ procs' = Forget(stopTunnel(procs, tunnelProcess).procs)
    /\ tunnelProcess' = stopTunnel(procs, tunnelProcess).handle
    /\ calls' = Put(c, [c EXCEPT !.ph = "done",
                              !.ret = Ret(TRUE, NoJobId, "", NoNode, NoError)])
    /\ UNCHANGED <<kind, jobs>>
    /\ UnchangedClient

----------------------------------------------------------------------------
\* llm-actions: submitLLMJob and checkLLMJobStatus, executed for call i

submitLLMJob(c) ==
    /\ c.op = "submitLLMJob" /\ c.ph = "sent"
    /\ \E out \in SubmitOutcomes(Len(jobs) + 1) :
        /\ jobs' = IF Created(out)
                   THEN Append(jobs, [name |-> JobName("llm"), st |-> "PENDING", node |-> NoNode])
                   ELSE jobs
        /\ calls' = Put(c, [c EXCEPT !.ph = "done",
                                  !.ret = submitResult(out, "Failed to submit job")])
    /\ UNCHANGED <<kind, tunnelProcess, procs>>
    /\ UnchangedClient

\* the live query, and the historical query when the live query exits non-zero
checkJobStatus(c, op) ==
    /\ c.op = op /\ c.ph = "sent"
    /\ \E live \in LiveOutcomes(jobs[JobOfId(c.arg)]) :
       \E hist \in HistOutcomes(jobs[JobOfId(c.arg)]) :
        calls' = Put(c, [c EXCEPT !.ph = "done", !.ret = checkResult(live, hist)])
    /\ UNCHANGED <<kind, jobs, tunnelProcess, procs>>
    /\ UnchangedClient

checkLLMJobStatus(c) == checkJobStatus(c, "checkLLMJobStatus")

----------------------------------------------------------------------------
\* LLMManager.tsx

\* a tunnel effect that never calls startTunnelAction
initTunnelNeverStarts(cs, status2, node2) == cs

\* the tunnel effect (deps status, node): initTunnel calls startTunnelAction
\* when the new state is starting_tunnel with a node
initTunnel(cs, status2, node2) ==
    IF <<status2, node2>> # <<status, node>> /\ status2 = "starting_tunnel" /\ node2 # NoNode
    THEN Add(cs, Call("startTunnelAction", NoJobId, node2, ""))
    ELSE cs

\* a Start button rendered in every view
startAlwaysRendered == TRUE

\* the Start button is rendered in the idle view only
startEnabled == status = "idle"

startServer ==
    /\ kind = "llm"
    /\ startEnabled
    /\ submits < MaxSubmits /\ InFlight < MaxCalls
    /\ status' = "submitting"
    /\ error' = NoError
    /\ submits' = submits + 1
    /\ calls' = Add(calls, Call("submitLLMJob", NoJobId, NoNode, ""))
    /\ UNCHANGED <<kind, jobId, node>>
    /\ UnchangedServer /\ UnchangedNB

\* startServer after the await of submitLLMJob
startServerResume(c) ==
    /\ Returned(c, "submitLLMJob")
    /\ LET result == c.ret IN
       IF result.success /\ result.jobId # NoJobId
       THEN /\ jobId' = result.jobId
            /\ status' = "queued"
            /\ UNCHANGED error
       ELSE /\ error' = IF result.error # NoError THEN result.error ELSE "Failed to submit job"
            /\ status' = "error"
            /\ UNCHANGED jobId
    /\ calls' = Drop(c)
    /\ UNCHANGED <<kind, node, submits>>
    /\ UnchangedServer /\ UnchangedNB

\* the interval of the poll effect lives while status is queued with a job id
pollTick ==
    /\ kind = "llm"
    /\ status = "queued" /\ jobId # NoJobId
    /\ InFlight < MaxCalls
    /\ calls' = Add(calls, Call("checkLLMJobStatus", jobId, NoNode, ""))
    /\ UnchangedServer /\ UnchangedClient /\ UNCHANGED kind

\* the interval callback after the await of checkLLMJobStatus
pollResume(c) ==
    /\ Returned(c, "checkLLMJobStatus")
    /\ LET check == c.ret IN
       IF check.success /\ check.state = "RUNNING" /\ check.node # NoNode
       THEN /\ node' = check.node
            /\ status' = "starting_tunnel"
            /\ UNCHANGED error
       ELSE IF check.success /\ check.state \in {"COMPLETED", "FAILED", "CANCELLED", "TIMEOUT"}
       THEN /\ error' = "Job ended with state"
            /\ status' = "error"
            /\ UNCHANGED node
       ELSE UNCHANGED <<node, status, error>>
    /\ calls' = initTunnel(Drop(c), status', node')
    /\ UNCHANGED <<kind, jobId, submits>>
    /\ UnchangedServer /\ UnchangedNB

\* initTunnel after the await of startTunnelAction
initTunnelResume(c) ==
    /\ kind = "llm"
    /\ Returned(c, "startTunnelAction")
    /\ LET tunnel == c.ret IN
       IF tunnel.success
       THEN status' = "ready" /\ UNCHANGED error
       ELSE /\ error' = IF tunnel.error # NoError THEN tunnel.error ELSE "Failed to start tunnel"
            /\ status' = "error"
    /\ calls' = Drop(c)
    /\ UNCHANGED <<kind, jobId, node, submits>>
    /\ UnchangedServer /\ UnchangedNB

\* Stop Server (ready view) and Cancel (every view but idle and ready)
handleStop ==
    /\ kind = "llm"
    /\ status # "idle"
    /\ InFlight < MaxCalls
    /\ calls' = Add(calls, Call("stopTunnelAction", NoJobId, NoNode, status))
    /\ UnchangedServer /\ UnchangedClient /\ UNCHANGED kind

\* a handleStop that sets idle and keeps the job id and the node
handleStopKeepsJob(c) ==
    /\ Returned(c, "stopTunnelAction")
    /\ status' = "idle"
    /\ calls' = Drop(c)
    /\ UNCHANGED <<kind, jobId, node, error, submits>>
    /\ UnchangedServer /\ UnchangedNB

\* handleStop after the await of stopTunnelAction
handleStopResume(c) ==
    /\ Returned(c, "stopTunnelAction")
    /\ status' = "idle"
    /\ jobId' = NoJobId
    /\ node' = NoNode
    /\ calls' = Drop(c)
    /\ UNCHANGED <<kind, error, submits>>
    /\ UnchangedServer /\ UnchangedNB


----------------------------------------------------------------------------
\* notebook-actions: stopNotebookJob, submitNotebookJob, checkNotebookJobStatus

ALLOWED_MODELS ==
    {"meta-llama/Meta-Llama-3-8B-Instruct", "mistralai/Mistral-7B-Instruct-v0.2",
     "google/gemma-7b-it", "google/gemma-3-1b-it"}

\* a submitNotebookJob that does not look at the model id
modelUnchecked(c) == TRUE

\* ALLOWED_MODELS.includes(modelId), the first statement of submitNotebookJob
modelAllowed(c) == c.op = "submitNotebookJob" => c.arg \in ALLOWED_MODELS

\* submitNotebookJob with a model id outside the list: the Error thrown by
\* the check is caught and returned
submitNotebookJobInvalid(c) ==
    /\ c.op = "submitNotebookJob" /\ c.ph = "sent"
    /\ c.arg \notin ALLOWED_MODELS
    /\ calls' = Put(c, [c EXCEPT !.ph = "done",
                              !.ret = Ret(FALSE, NoJobId, "", NoNode, "Invalid model selection")])
    /\ UNCHANGED <<kind, jobs, tunnelProcess, procs>>
    /\ UnchangedClient

\* stopNotebookJob up to its await of scancel: stopTunnelAction, then the
\* cancellation by name is issued
stopNotebookJobBegin(c) ==
    /\ c.op \in {"stopNotebookJob", "submitNotebookJob"} /\ c.ph = "sent"
    /\ modelAllowed(c)
    /\ procs' = Forget(stopTunnel(procs, tunnelProcess).procs)
    /\ tunnelProcess' = stopTunnel(procs, tunnelProcess).handle
    /\ calls' = Put(c, [c EXCEPT !.ph = "cancel", !.cancels = @ + 1])
    /\ UNCHANGED <<kind, jobs>>
    /\ UnchangedClient

\* scancel has run: stopNotebookJob returns; a non-zero exit is only logged
stopNotebookJob(c) ==
    /\ c.op = "stopNotebookJob" /\ c.ph = "cancel"
    /\ \E out \in CancelOutcomes :
        /\ jobs' = IF ~out.thrown /\ out.code = 0 THEN Cancelled(jobs, JobName("notebook")) ELSE jobs
        /\ calls' = Put(c, [c EXCEPT !.ph = "done",
                                  !.ret = IF out.thrown
                                             THEN Ret(FALSE, NoJobId, "", NoNode, out.stderr)
                                             ELSE Ret(TRUE, NoJobId, "", NoNode, NoError)])
    /\ UNCHANGED <<kind, tunnelProcess, procs>>
    /\ UnchangedClient

\* submitNotebookJob after its await of stopNotebookJob, whose result it drops:
\* the submit command is issued
submitNotebookJobCancelled(c) ==
    /\ c.op = "submitNotebookJob" /\ c.ph = "cancel"
    /\ \E out \in CancelOutcomes :
        jobs' = IF ~out.thrown /\ out.code = 0 THEN Cancelled(jobs, JobName("notebook")) ELSE jobs
    /\ calls' = Put(c, [c EXCEPT !.ph = "submit"])
    /\ UNCHANGED <<kind, tunnelProcess, procs>>
    /\ UnchangedClient

submitNotebookJob(c) ==
    /\ c.op = "submitNotebookJob" /\ c.ph = "submit"
    /\ \E out \in SubmitOutcomes(Len(jobs) + 1) :
        /\ jobs' = IF Created(out)
                   THEN Append(jobs, [name |-> JobName("notebook"), st |-> "PENDING", node |-> NoNode])
                   ELSE jobs
        /\ calls' = Put(c, [c EXCEPT !.ph = "done",
                                  !.ret = submitResult(out, "Failed to submit notebook job")])
    /\ UNCHANGED <<kind, tunnelProcess, procs>>
    /\ UnchangedClient

checkNotebookJobStatus(c) == checkJobStatus(c, "checkNotebookJobStatus")

----------------------------------------------------------------------------
\* NotebookManager (src/unnamed/part_002)

\* checkNotebookHealth through the local port: the service answers when a
\* listening tunnel forwards the port to the node of a running notebook job
healthOk ==
    \E p \in 1..Len(procs) : \E j \in 1..Len(jobs) :
        /\ procs[p].st = "listening"
        /\ scriptArgs(procs[p].args).localPort = ServicePort("notebook")
        /\ jobs[j].name = JobName("notebook") /\ jobs[j].st = "RUNNING"
        /\ scriptArgs(procs[p].args).remoteHost = jobs[j].node
        /\ scriptArgs(procs[p].args).remotePort = ServicePort("notebook")

\* checkStatus, on mount and every 5 s
checkStatus ==
    /\ kind = "notebook"
    /\ status' = IF healthOk THEN "active" ELSE "inactive"
    /\ UNCHANGED <<kind, calls, jobId, node, error, submits>>
    /\ UnchangedServer /\ UnchangedNB

\* useState('meta-llama/Meta-Llama-3-8B-Instruct'): the model of the select
modelId == "meta-llama/Meta-Llama-3-8B-Instruct"

\* the Start button is rendered in the inactive view, disabled while starting
nbStartEnabled == status = "inactive" /\ ~starting

handleStartServer ==
    /\ kind = "notebook"
    /\ nbStartEnabled
    /\ submits < MaxSubmits /\ InFlight < MaxCalls
    /\ starting' = TRUE
    /\ submits' = submits + 1
    /\ calls' = Add(calls, Call("submitNotebookJob", modelId, NoNode, ""))
    /\ UNCHANGED <<kind, status, stopping, pollInterval>>
    /\ UnchangedServer /\ UnchangedLLM

\* handleStartServer after the await of submitNotebookJob
handleStartServerResume(c) ==
    /\ Returned(c, "submitNotebookJob")
    /\ LET result == c.ret IN
       IF result.success /\ result.jobId # NoJobId
       THEN pollInterval' = pollInterval \cup {result.jobId} /\ UNCHANGED starting
       ELSE starting' = FALSE /\ UNCHANGED pollInterval
    /\ calls' = Drop(c)
    /\ UNCHANGED <<kind, status, stopping, submits>>
    /\ UnchangedServer /\ UnchangedLLM

nbPollTick ==
    /\ kind = "notebook"
    /\ InFlight < MaxCalls
    /\ \E id \in pollInterval :
        calls' = Add(calls, Call("checkNotebookJobStatus", id, NoNode, ""))
    /\ UnchangedServer /\ UnchangedClient /\ UNCHANGED kind

\* the interval callback after the await of checkNotebookJobStatus
nbPollResume(c) ==
    /\ Returned(c, "checkNotebookJobStatus")
    /\ LET statusRes == c.ret IN
       IF statusRes.success /\ statusRes.state = "RUNNING" /\ statusRes.node # NoNode
       THEN /\ pollInterval' = pollInterval \ {c.arg}
            /\ calls' = Add(Drop(c),
                               Call("startTunnelAction", NoJobId, statusRes.node, ""))
            /\ UNCHANGED starting
       ELSE IF ~statusRes.success \/ statusRes.state \in {"COMPLETED", "FAILED", "CANCELLED"}
       THEN /\ pollInterval' = pollInterval \ {c.arg}
            /\ starting' = FALSE
            /\ calls' = Drop(c)
       ELSE /\ calls' = Drop(c)
            /\ UNCHANGED <<pollInterval, starting>>
    /\ UNCHANGED <<kind, status, stopping, submits>>
    /\ UnchangedServer /\ UnchangedLLM

\* the interval callback after the await of startTunnelAction
nbTunnelResume(c) ==
    /\ kind = "notebook"
    /\ Returned(c, "startTunnelAction")
    /\ status' = IF c.ret.success THEN "active" ELSE status
    /\ starting' = FALSE
    /\ calls' = Drop(c)
    /\ UNCHANGED <<kind, stopping, pollInterval, submits>>
    /\ UnchangedServer /\ UnchangedLLM

\* Stop Server is rendered in the active view, disabled while stopping
handleStopServer ==
    /\ kind = "notebook"
    /\ status = "active" /\ ~stopping
    /\ InFlight < MaxCalls
    /\ stopping' = TRUE
    /\ calls' = Add(calls, Call("stopNotebookJob", NoJobId, NoNode, status))
    /\ UNCHANGED <<kind, status, starting, pollInterval, submits>>
    /\ UnchangedServer /\ UnchangedLLM

\* handleStopServer after the await of stopNotebookJob
handleStopServerResume(c) ==
    /\ Returned(c, "stopNotebookJob")
    /\ status' = IF c.ret.success THEN "inactive" ELSE status
    /\ stopping' = FALSE
    /\ calls' = Drop(c)
    /\ UNCHANGED <<kind, starting, pollInterval, submits>>
    /\ UnchangedServer /\ UnchangedLLM

----------------------------------------------------------------------------
Next ==
    \/ \E j \in 1..Len(jobs) : SchedRun(j)
    \/ \E j \in 1..Len(jobs) : SchedEnd(j)
    \/ \E p \in 1..Len(procs) : ProcReady(p)
    \/ \E p \in 1..Len(procs) : ProcExit(p)
    \/ \E p \in 1..Len(procs) : ProcClose(p)
    \/ \E c \in DOMAIN calls : startTunnelAction(c)
    \/ \E c \in DOMAIN calls : stopTunnelAction(c)
    \/ \E c \in DOMAIN calls : submitLLMJob(c)
    \/ \E c \in DOMAIN calls : checkLLMJobStatus(c)
    \/ \E c \in DOMAIN calls : startServerResume(c)
    \/ \E c \in DOMAIN calls : pollResume(c)
    \/ \E c \in DOMAIN calls : initTunnelResume(c)
    \/ \E c \in DOMAIN calls : handleStopResume(c)
    \/ \E c \in DOMAIN calls : stopNotebookJobBegin(c)
    \/ \E c \in DOMAIN calls : stopNotebookJob(c)
    \/ \E c \in DOMAIN calls : submitNotebookJobCancelled(c)
    \/ \E c \in DOMAIN calls : submitNotebookJob(c)
    \/ \E c \in DOMAIN calls : checkNotebookJobStatus(c)
    \/ \E c \in DOMAIN calls : handleStartServerResume(c)
    \/ \E c \in DOMAIN calls : nbPollResume(c)
    \/ \E c \in DOMAIN calls : nbTunnelResume(c)
    \/ \E c \in DOMAIN calls : handleStopServerResume(c)
    \/ startServer
    \/ pollTick
    \/ handleStop
    \/ checkStatus
    \/ handleStartServer
    \/ nbPollTick
    \/ handleStopServer

Spec == Init /\ [][Next]_vars


----------------------------------------------------------------------------
\* The tunnel actions of one module under every order of calls: a client
\* calls startTunnelAction (as initTunnel and the poll callback do) and
\* stopTunnelAction (as handleStop does) at any time, and takes the results

callStartTunnel ==
    /\ InFlight < MaxCalls
    /\ \E n \in Nodes : calls' = Add(calls, Call("startTunnelAction", NoJobId, n, ""))
    /\ UnchangedServer /\ UnchangedClient /\ UNCHANGED kind

callStopTunnel ==
    /\ InFlight < MaxCalls
    /\ calls' = Add(calls, Call("stopTunnelAction", NoJobId, NoNode, ""))
    /\ UnchangedServer /\ UnchangedClient /\ UNCHANGED kind

takeResult(c) ==
    /\ c.ph = "done"
    /\ calls' = Drop(c)
    /\ UnchangedServer /\ UnchangedClient /\ UNCHANGED kind

NextTunnel ==
    \/ \E p \in 1..Len(procs) : ProcReady(p)
    \/ \E p \in 1..Len(procs) : ProcStderr(p)
    \/ \E p \in 1..Len(procs) : ProcExit(p)
    \/ \E p \in 1..Len(procs) : ProcClose(p)
    \/ \E c \in DOMAIN calls : startTunnelAction(c)
    \/ \E c \in DOMAIN calls : stopTunnelAction(c)
    \/ \E c \in DOMAIN calls : takeResult(c)
    \/ callStartTunnel
    \/ callStopTunnel

SpecTunnel == Init /\ [][NextTunnel]_vars


----------------------------------------------------------------------------
\* public/tunnel_script.js: one run of the script, from its arguments to its
\* exit, with the local connections it accepts and the channels it opens

\* the argument lists the script is started with: the spawn of each job kind,
\* and the llm spawn for credentials without a password (password || '')
ScriptArgvs ==
    {spawnArgs(k, n) : k \in {"llm", "notebook"}, n \in Nodes} \cup
    {<<credentials.host, credentials.username, "", n, "5000", "5000">> : n \in Nodes}

\* !host || !username || !password || !remoteHost || !remotePort || !localPort
missingArgs(argv) ==
    LET a == scriptArgs(argv) IN
    a.host = "" \/ a.username = "" \/ a.password = "" \/ a.remoteHost = ""
        \/ a.remotePort = "" \/ a.localPort = ""

\* the process ends: by process.exit(code), by a signal (code null), or with
\* code 0 when nothing keeps the event loop alive
exit(sc, code, cause) == [sc EXCEPT !.ph = "exited", !.code = code, !.cause = cause]

UnchangedSession ==
    UNCHANGED <<kind, jobs, tunnelProcess, procs, calls, status, jobId, node, error,
                starting, stopping, pollInterval, submits, query, remote, chat, mounted>>

InitScript ==
    /\ kind \in {"llm", "notebook"}
    /\ jobs = <<>>
    /\ tunnelProcess = 0
    /\ procs = <<>>
    /\ calls = EmptyBag
    /\ status = IF kind = "llm" THEN "idle" ELSE "checking"
    /\ jobId = NoJobId
    /\ node = NoNode
    /\ error = NoError
    /\ starting = FALSE
    /\ stopping = FALSE
    /\ pollInterval = {}
    /\ submits = 0
    /\ \E argv \in ScriptArgvs : script = [NoScript EXCEPT !.ph = "start", !.argv = argv]
    /\ query = NoQuery
    /\ remote = NoRemote
    /\ chat = NoChat
    /\ mounted = TRUE

\* the argument check, then conn.connect(...)
ScriptMain ==
    /\ script.ph = "start"
    /\ script' = IF missingArgs(script.argv)
                 THEN exit(script, "1", "args")
                 ELSE [script EXCEPT !.ph = "connecting"]
    /\ UnchangedSession

\* conn 'ready': the server is created and server.listen is called
SshReady ==
    /\ script.ph = "connecting"
    /\ script' = [script EXCEPT !.ph = "binding", !.ssh = "ready"]
    /\ UnchangedSession

\* conn 'error' while connecting (authentication, network): the handler logs;
\* the event loop is empty and the process ends
SshError ==
    /\ script.ph = "connecting"
    /\ script' = exit([script EXCEPT !.ssh = "closed"], "0", "ssh")
    /\ UnchangedSession

\* the listener is bound: the listen callback prints the marker
Listen ==
    /\ script.ph = "binding"
    /\ script' = [script EXCEPT !.ph = "listening", !.marker = TRUE]
    /\ UnchangedSession

\* server 'error' (the local port is busy): the handler logs and calls
\* conn.end(); the event loop is empty and the process ends
BindError ==
    /\ script.ph = "binding"
    /\ script' = exit([script EXCEPT !.ssh = "closed"], "0", "bind")
    /\ UnchangedSession

\* the parent's kill(): SIGTERM ends the process
ScriptKilled ==
    /\ script.ph \in {"connecting", "binding", "listening"}
    /\ script' = exit(script, "null", "signal")
    /\ UnchangedSession

\* a forwarding channel that every connection shares
sharedChannel(chs) == 1

\* forwardOut opens a new channel on the SSH connection
newChannel(chs) == Len(chs) + 1

\* a local client connects: the connection handler calls conn.forwardOut
Accept ==
    /\ script.ph = "listening"
    /\ Len(script.socks) < MaxConns
    /\ script' = [script EXCEPT !.socks = Append(@, [st |-> "opening", chan |-> 0, down |-> {}])]
    /\ UnchangedSession

\* the forwardOut callback without error: socket.pipe(stream).pipe(socket)
ForwardOk(i) ==
    /\ script.ph = "listening" /\ script.ssh = "ready"
    /\ script.socks[i].st = "opening"
    /\ script' = [script EXCEPT !.chans = Append(@, [up |-> {}]),
                                !.socks[i].st = "piped",
                                !.socks[i].chan = newChannel(script.chans)]
    /\ UnchangedSession

\* the forwardOut callback with err: the error is logged and socket.end()
ForwardErr(i) ==
    /\ script.ph = "listening"
    /\ script.socks[i].st = "opening"
    /\ script' = [script EXCEPT !.socks[i].st = "ended"]
    /\ UnchangedSession

\* bytes of local connection i are piped into its stream
Upstream(i) ==
    /\ script.ph = "listening"
    /\ script.socks[i].st = "piped"
    /\ i \notin script.chans[script.socks[i].chan].up
    /\ script' = [script EXCEPT !.chans[script.socks[i].chan].up = @ \cup {i}]
    /\ UnchangedSession

\* bytes of the stream of connection i are piped into its socket
Downstream(i) ==
    /\ script.ph = "listening"
    /\ script.socks[i].st = "piped"
    /\ script.socks[i].chan \notin script.socks[i].down
    /\ script' = [script EXCEPT !.socks[i].down = @ \cup {script.socks[i].chan}]
    /\ UnchangedSession

\* the local client of a piped connection closes it
SockClose(i) ==
    /\ script.ph = "listening"
    /\ script.socks[i].st = "piped"
    /\ script' = [script EXCEPT !.socks[i].st = "ended"]
    /\ UnchangedSession

NextScript ==
    \/ ScriptMain
    \/ SshReady
    \/ SshError
    \/ Listen
    \/ BindError
    \/ ScriptKilled
    \/ Accept
    \/ \E i \in 1..Len(script.socks) : ForwardOk(i)
    \/ \E i \in 1..Len(script.socks) : ForwardErr(i)
    \/ \E i \in 1..Len(script.socks) : Upstream(i)
    \/ \E i \in 1..Len(script.socks) : Downstream(i)
    \/ \E i \in 1..Len(script.socks) : SockClose(i)

SpecScript == InitScript /\ [][NextScript]_vars

----------------------------------------------------------------------------
\* checkLLMJobStatus / checkNotebookJobStatus on every output of the two
\* scheduler queries, followed by the poll callback of LLMManager

\* the state names the scheduler prints, one of them outside the seven the
\* application knows
StateTokens == {"RUNNING", "SUSPENDED"}
QueueTokens == StateTokens \cup {"node42", "(N/A)", " ", "\n"}

\* the outputs of a query: up to MaxTokens tokens, the first word a state
QueueTexts ==
    {t \in UNION {[1..k -> QueueTokens] : k \in 0..MaxTokens} :
        Split(t) = <<>> \/ Split(t)[1] \in StateTokens}

QueryResults ==
    {ConnectionError} \cup {Outcome(FALSE, code, t, "") : code \in {0, 1}, t \in QueueTexts}

\* a historical query issued after every live query
needsHistAlways(live) == TRUE

\* if (result.code !== 0): the historical query is issued
needsHist(live) == live.code # 0

\* the status the poll callback of LLMManager sets while queued
pollStatus(check) ==
    IF check.success /\ check.state = "RUNNING" /\ check.node # NoNode THEN "starting_tunnel"
    ELSE IF check.success /\ check.state \in {"COMPLETED", "FAILED", "CANCELLED", "TIMEOUT"}
    THEN "error"
    ELSE "queued"

UnchangedQuery ==
    UNCHANGED <<kind, jobs, tunnelProcess, procs, calls, status, jobId, node, error,
                starting, stopping, pollInterval, submits, script, remote, chat, mounted>>

InitStatus ==
    /\ kind \in {"llm", "notebook"}
    /\ jobs = <<>>
    /\ tunnelProcess = 0
    /\ procs = <<>>
    /\ calls = EmptyBag
    /\ status = IF kind = "llm" THEN "idle" ELSE "checking"
    /\ jobId = NoJobId
    /\ node = NoNode
    /\ error = NoError
    /\ starting = FALSE
    /\ stopping = FALSE
    /\ pollInterval = {}
    /\ submits = 0
    /\ script = NoScript
    /\ query = [NoQuery EXCEPT !.ph = "start"]
    /\ remote = NoRemote
    /\ chat = NoChat
    /\ mounted = TRUE

\* the live query (squeue) returns or throws
QueryLive ==
    /\ query.ph = "start"
    /\ \E live \in QueryResults :
        query' = IF ~live.thrown /\ needsHist(live)
                 THEN [query EXCEPT !.ph = "hist", !.live = live, !.cmds = <<"squeue">>]
                 ELSE [query EXCEPT !.ph = "done", !.live = live, !.cmds = <<"squeue">>,
                                    !.ret = checkResult(live, live)]
    /\ UnchangedQuery

\* the historical query (sacct) returns or throws
QueryHist ==
    /\ query.ph = "hist"
    /\ \E hist \in QueryResults :
        query' = [query EXCEPT !.ph = "done", !.hist = hist, !.cmds = Append(@, "sacct"),
                               !.ret = checkResult(query.live, hist)]
    /\ UnchangedQuery

\* the poll callback of LLMManager takes the result while queued
PollCallback ==
    /\ query.ph = "done"
    /\ query' = [query EXCEPT !.ph = "applied", !.next = pollStatus(query.ret)]
    /\ UnchangedQuery

NextStatus ==
    \/ QueryLive
    \/ QueryHist
    \/ PollCallback

SpecStatus == InitStatus /\ [][NextStatus]_vars

----------------------------------------------------------------------------
\* The submit command of submitLLMJob / submitNotebookJob on the remote shell:
\* cat << 'EOF' > file, sbatch file, rm file, one command line after the other.
\* Calls of the action come from any client of the account, so two commands
\* can run at the same time.

\* `llm_job_${timestamp}.slurm` / `notebook_job_${timestamp}.slurm`
filename(k, timestamp) ==
    <<IF k = "llm" THEN "llm_job_" ELSE "notebook_job_", timestamp, ".slurm">>

UnchangedRemote ==
    UNCHANGED <<kind, jobs, tunnelProcess, procs, calls, status, jobId, node, error,
                starting, stopping, pollInterval, submits, script, query, chat, mounted>>

InitSubmit ==
    /\ kind \in {"llm", "notebook"}
    /\ jobs = <<>>
    /\ tunnelProcess = 0
    /\ procs = <<>>
    /\ calls = EmptyBag
    /\ status = IF kind = "llm" THEN "idle" ELSE "checking"
    /\ jobId = NoJobId
    /\ node = NoNode
    /\ error = NoError
    /\ starting = FALSE
    /\ stopping = FALSE
    /\ pollInterval = {}
    /\ submits = 0
    /\ script = NoScript
    /\ query = NoQuery
    /\ remote = NoRemote
    /\ chat = NoChat
    /\ mounted = TRUE

\* a millisecond passes on the server: Date.now() grows
ClockTick ==
    /\ remote.clock < MaxClock
    /\ remote' = [remote EXCEPT !.clock = @ + 1]
    /\ UnchangedRemote

\* the action up to executeCommand: const timestamp = Date.now(), the file
\* name and the command, which starts on the remote shell
SubmitCommand ==
    /\ Len(remote.cmds) < MaxSubmits
    /\ remote' = [remote EXCEPT
           !.cmds = Append(@, [file |-> filename(kind, remote.clock), pc |-> "cat"])]
    /\ UnchangedRemote

\* cat << 'EOF' > file: the rendered script is written
ShellCat(i) ==
    /\ remote.cmds[i].pc = "cat"
    /\ remote' = [remote EXCEPT !.cmds[i].pc = "sbatch",
                                !.files = @ \cup {remote.cmds[i].file},
                                !.log = Append(@, <<i, "write", remote.cmds[i].file>>)]
    /\ UnchangedRemote

\* sbatch file: accepted or rejected by the scheduler, rejected when the file
\* is not there; the shell goes on to the next line in both cases
ShellSbatch(i) ==
    /\ remote.cmds[i].pc = "sbatch"
    /\ \E ok \in {b \in BOOLEAN : b => remote.cmds[i].file \in remote.files} :
        remote' = [remote EXCEPT
            !.cmds[i].pc = "rm",
            !.log = Append(@, <<i, IF ok THEN "submit" ELSE "submit failed",
                                remote.cmds[i].file>>)]
    /\ UnchangedRemote

\* rm file
ShellRm(i) ==
    /\ remote.cmds[i].pc = "rm"
    /\ remote' = [remote EXCEPT !.cmds[i].pc = "done",
                                !.files = @ \ {remote.cmds[i].file},
                                !.log = Append(@, <<i, "delete", remote.cmds[i].file>>)]
    /\ UnchangedRemote

NextSubmit ==
    \/ ClockTick
    \/ SubmitCommand
    \/ \E i \in 1..Len(remote.cmds) : ShellCat(i)
    \/ \E i \in 1..Len(remote.cmds) : ShellSbatch(i)
    \/ \E i \in 1..Len(remote.cmds) : ShellRm(i)

SpecSubmit == InitSubmit /\ [][NextSubmit]_vars

----------------------------------------------------------------------------
\* LLMManager until it is unmounted (the user leaves the tab or logs out)

\* the status the cleanup closure reads: the effect has no dependencies, so
\* its cleanup is the one of the first render, where status is 'idle'
cleanupStatus == "idle"

\* the cleanup of the unmount effect, and that of the poll effect, whose
\* interval ends with the component
unmount ==
    /\ kind = "llm" /\ mounted
    /\ mounted' = FALSE
    /\ calls' = IF cleanupStatus = "ready"
                THEN Add(calls, Call("stopTunnelAction", NoJobId, NoNode, status))
                ELSE calls
    /\ UNCHANGED <<kind, jobs, tunnelProcess, procs, status, jobId, node, error,
                   starting, stopping, pollInterval, submits, script, query, remote, chat>>

InitUnmount == Init /\ kind = "llm"

\* the session of the component while it is mounted
NextUnmount ==
    \/ mounted /\ \E j \in 1..Len(jobs) : SchedRun(j)
    \/ mounted /\ \E j \in 1..Len(jobs) : SchedEnd(j)
    \/ mounted /\ \E p \in 1..Len(procs) : ProcReady(p)
    \/ mounted /\ \E p \in 1..Len(procs) : ProcExit(p)
    \/ mounted /\ \E p \in 1..Len(procs) : ProcClose(p)
    \/ mounted /\ \E c \in DOMAIN calls : startTunnelAction(c)
    \/ mounted /\ \E c \in DOMAIN calls : stopTunnelAction(c)
    \/ mounted /\ \E c \in DOMAIN calls : submitLLMJob(c)
    \/ mounted /\ \E c \in DOMAIN calls : checkLLMJobStatus(c)
    \/ mounted /\ \E c \in DOMAIN calls : startServerResume(c)
    \/ mounted /\ \E c \in DOMAIN calls : pollResume(c)
    \/ mounted /\ \E c \in DOMAIN calls : initTunnelResume(c)
    \/ mounted /\ \E c \in DOMAIN calls : handleStopResume(c)
    \/ mounted /\ startServer
    \/ mounted /\ pollTick
    \/ mounted /\ handleStop
    \/ unmount

SpecUnmount == InitUnmount /\ [][NextUnmount]_vars

----------------------------------------------------------------------------
\* submitNotebookJob called with any model id, next to the tunnel actions: a
\* client calls the server actions directly and takes the results

ModelIds == {modelId, "google/gemma-7b-it", "gpt2", ""}

callSubmitNotebook ==
    /\ InFlight < MaxCalls
    /\ submits < MaxSubmits
    /\ submits' = submits + 1
    /\ \E m \in ModelIds : calls' = Add(calls, Call("submitNotebookJob", m, NoNode, ""))
    /\ UNCHANGED <<kind, status, jobId, node, error, starting, stopping, pollInterval>>
    /\ UnchangedServer

InitModel == Init /\ kind = "notebook"

NextModel ==
    \/ \E p \in 1..Len(procs) : ProcReady(p)
    \/ \E p \in 1..Len(procs) : ProcExit(p)
    \/ \E p \in 1..Len(procs) : ProcClose(p)
    \/ \E c \in DOMAIN calls : startTunnelAction(c)
    \/ \E c \in DOMAIN calls : submitNotebookJobInvalid(c)
    \/ \E c \in DOMAIN calls : stopNotebookJobBegin(c)
    \/ \E c \in DOMAIN calls : submitNotebookJobCancelled(c)
    \/ \E c \in DOMAIN calls : submitNotebookJob(c)
    \/ \E c \in DOMAIN calls : takeResult(c)
    \/ callStartTunnel
    \/ callSubmitNotebook

SpecModel == InitModel /\ [][NextModel]_vars

----------------------------------------------------------------------------
\* ChatInterface.tsx.  chat.sent is the list of queries passed to onQuery;
\* chat.sends and chat.blank count the calls of handleSend and those with a
\* blank input.  An input text is a sequence of tokens, as a queue text is.

Inputs == {<<>>, <<" ">>, <<"hi">>, <<" ", "hi", "\n">>}

\* what onQuery produces: a thrown error, or a response with some of the
\* fields generated_text, response, error ("" is a missing field), or a string
Response(thrown, generated_text, response, err, text) ==
    [thrown |-> thrown, generated_text |-> generated_text, response |-> response,
     error |-> err, text |-> text]
Responses ==
    { Response(TRUE, "", "", "", ""),
      Response(FALSE, "answer", "", "", ""),
      Response(FALSE, "", "reply", "", ""),
      Response(FALSE, "", "", "HTTP 500", ""),
      Response(FALSE, "", "", "", "plain"),
      Response(FALSE, "", "", "", "") }

\* the content of the assistant message for response r
content(r) ==
    IF r.thrown THEN <<"Failed to get response.">>
    ELSE IF r.generated_text # "" THEN <<r.generated_text>>
    ELSE IF r.response # "" THEN <<r.response>>
    ELSE IF r.error # "" THEN <<"Error: ", r.error>>
    ELSE IF r.text # "" THEN <<r.text>>
    ELSE <<"JSON.stringify">>

\* a test for the empty string only
isEmpty(input) == input = <<>>

\* !input.trim()
isBlank(input) == Trim(input) = <<>>

UnchangedChat ==
    UNCHANGED <<kind, jobs, tunnelProcess, procs, calls, status, jobId, node, error,
                starting, stopping, pollInterval, submits, script, query, remote, mounted>>

InitChat ==
    /\ kind \in {"llm", "notebook"}
    /\ jobs = <<>>
    /\ tunnelProcess = 0
    /\ procs = <<>>
    /\ calls = EmptyBag
    /\ status = IF kind = "llm" THEN "ready" ELSE "active"
    /\ jobId = NoJobId
    /\ node = NoNode
    /\ error = NoError
    /\ starting = FALSE
    /\ stopping = FALSE
    /\ pollInterval = {}
    /\ submits = 0
    /\ script = NoScript
    /\ query = NoQuery
    /\ remote = NoRemote
    /\ chat = [NoChat EXCEPT !.ph = "idle"]
    /\ mounted = TRUE

\* onChange of the input, which is disabled while loading
onChange ==
    /\ chat.ph = "idle" /\ ~chat.loading
    /\ \E t \in Inputs : t # chat.input /\ chat' = [chat EXCEPT !.input = t]
    /\ UnchangedChat

\* handleSend up to its await of onQuery: by the Enter key of the input, or
\* by the Send button
handleSend ==
    /\ chat.ph = "idle" /\ ~chat.loading
    /\ chat.sends < MaxSends
    /\ chat' = IF isBlank(chat.input)
               THEN [chat EXCEPT !.sends = @ + 1, !.blank = @ + 1]
               ELSE [chat EXCEPT !.sends = @ + 1,
                                 !.messages = Append(@, [role |-> "user",
                                                         content |-> chat.input]),
                                 !.input = <<>>,
                                 !.loading = TRUE,
                                 !.sent = Append(@, chat.input),
                                 !.ph = "waiting"]
    /\ UnchangedChat

\* handleSend after the await of onQuery: try, catch and finally
handleSendResume ==
    /\ chat.ph = "waiting"
    /\ \E r \in Responses :
        chat' = [chat EXCEPT !.messages = Append(@, [role |-> "assistant",
                                                     content |-> content(r)]),
                             !.loading = FALSE,
                             !.ph = "idle"]
    /\ UnchangedChat

NextChat ==
    \/ onChange
    \/ handleSend
    \/ handleSendResume

SpecChat == InitChat /\ [][NextChat]_vars

----------------------------------------------------------------------------
\* One start of LLMManager that the user lets run, under fair scheduling:
\* every server action call is executed and every continuation resumes, the
\* interval ticks, the scheduler moves a job on, a tunnel subprocess prints
\* the marker or exits, a status query answers with the state of the job
\* again and again, and a continuation that would change the status is not
\* passed over for ever

InitLive == Init /\ kind = "llm"

\* the status check of call c returns the state of the job, and its node
\* while it runs
TruthfulCheck(c) ==
    /\ checkLLMJobStatus(c)
    /\ \E n \in {NoNode, jobs[JobOfId(c.arg)].node} :
           /\ jobs[JobOfId(c.arg)].st = "RUNNING" => n # NoNode
           /\ Completes(c, Ret(TRUE, NoJobId, jobs[JobOfId(c.arg)].st, n, NoError))

SchedStep == \E j \in 1..Len(jobs) : SchedRun(j) \/ SchedEnd(j)
TunnelStep == \E p \in 1..Len(procs) : ProcReady(p) \/ ProcExit(p)
ServerStep ==
    \E c \in DOMAIN calls :
        startTunnelAction(c) \/ submitLLMJob(c) \/ checkLLMJobStatus(c)
ClientStep ==
    \E c \in DOMAIN calls : startServerResume(c) \/ pollResume(c) \/ initTunnelResume(c)

NextLive ==
    \/ \E j \in 1..Len(jobs) : SchedRun(j)
    \/ \E j \in 1..Len(jobs) : SchedEnd(j)
    \/ \E p \in 1..Len(procs) : ProcReady(p)
    \/ \E p \in 1..Len(procs) : ProcExit(p)
    \/ \E c \in DOMAIN calls : startTunnelAction(c)
    \/ \E c \in DOMAIN calls : submitLLMJob(c)
    \/ \E c \in DOMAIN calls : checkLLMJobStatus(c)
    \/ \E c \in DOMAIN calls : startServerResume(c)
    \/ \E c \in DOMAIN calls : pollResume(c)
    \/ \E c \in DOMAIN calls : initTunnelResume(c)
    \/ startServer
    \/ pollTick

SpecLive ==
    /\ InitLive
    /\ [][NextLive]_vars
    /\ WF_vars(SchedStep)
    /\ WF_vars(TunnelStep)
    /\ WF_vars(ServerStep)
    /\ WF_vars(ClientStep)
    /\ WF_vars(ClientStep /\ status' # status)
    /\ WF_vars(pollTick)
    /\ SF_vars(\E c \in DOMAIN calls : TruthfulCheck(c))

----------------------------------------------------------------------------
\* Properties

SubmitOps == {"submitLLMJob", "submitNotebookJob"}
CheckOps == {"checkLLMJobStatus", "checkNotebookJobStatus"}
StopOps == {"stopTunnelAction", "stopNotebookJob"}
SubmitDefault == IF kind = "llm" THEN "Failed to submit job" ELSE "Failed to submit notebook job"

\* a call whose next step runs the submit command
AtSubmit(c) ==
    \/ c.op = "submitLLMJob" /\ c.ph = "sent"
    \/ c.op = "submitNotebookJob" /\ c.ph = "submit"
\* a call whose next step runs the status queries
AtCheck(c) == c.op \in CheckOps /\ c.ph = "sent"

\* a query that ran and printed no line
NoLine(o) == ~o.thrown /\ Trim(o.stdout) = <<>>
NotFound(r) == ~r.success /\ r.error = "Job not found"

\* C1: every result of submitLLMJob / submitNotebookJob is either a success
\* carrying a job id (and no error) or a failure carrying an error (and no
\* job id), never a success without a job id.
C1_SubmitExactlyOne ==
    \A c \in DOMAIN calls :
        c.op \in SubmitOps /\ c.ph = "done" =>
            \/ c.ret.success /\ c.ret.jobId # NoJobId /\ c.ret.error = NoError
            \/ ~c.ret.success /\ c.ret.error # NoError /\ c.ret.jobId = NoJobId

\* C2: whenever the submit command exits non-zero or its acknowledgement holds
\* no numeric job identifier, submit returns a failure; and the orchestrator
\* is never Queued (polling) without a job id.
C2_NoIdIsFailure ==
    /\ \A c \in DOMAIN calls :
        AtSubmit(c) =>
            \A out \in SubmitOutcomes(Len(jobs) + 1) :
                ~out.thrown /\ (out.code # 0 \/ MatchJobId(out.stdout) = NoJobId) =>
                    /\ ~submitResult(out, SubmitDefault).success
                    /\ submitResult(out, SubmitDefault).error # NoError
    /\ kind = "llm" /\ status = "queued" => jobId # NoJobId
    /\ NoJobId \notin pollInterval

\* C3: when the live query prints no line for the job and the historical
\* query prints nothing either, the status check returns the NotFound failure
\* (never Completed).
C3_AbsentIsNotFound ==
    \A c \in DOMAIN calls :
        AtCheck(c) =>
            \A live \in LiveOutcomes(jobs[JobOfId(c.arg)]) :
            \A hist \in HistOutcomes(jobs[JobOfId(c.arg)]) :
                NoLine(live) /\ NoLine(hist) => NotFound(checkResult(live, hist))

\* C4: when the live query prints no line for the job and the historical
\* record holds state S, the status check returns S.
C4_HistoricalStateReturned ==
    \A c \in DOMAIN calls :
        AtCheck(c) =>
            \A live \in LiveOutcomes(jobs[JobOfId(c.arg)]) :
            \A hist \in HistOutcomes(jobs[JobOfId(c.arg)]) :
                NoLine(live) /\ ~hist.thrown /\ ~NoLine(hist) =>
                    /\ checkResult(live, hist).success
                    /\ checkResult(live, hist).state = jobs[JobOfId(c.arg)].st

\* C5: among the startTunnelAction calls made since the last stopTunnelAction,
\* no call spawned a second subprocess beside a live one, and no call reported
\* success ("already running") while the call that spawned the subprocess
\* reported failure.
C5_OneTunnelSameOutcome ==
    LET cur == {p \in 1..Len(procs) : procs[p].sinceStop} IN
    /\ Cardinality({p \in cur : Alive(p)}) <= 1
    /\ \A p \in cur : procs[p].promise = "rejected" => ~procs[p].joined

\* C6: stopTunnelAction returns success from every tunnel state, leaves the
\* handle empty, and changes no subprocess when the handle was already empty.
C6_StopTunnelSucceeds ==
    [][\A c \in DOMAIN calls :
        stopTunnelAction(c) =>
            /\ calls' = Put(c, [c EXCEPT !.ph = "done",
                                         !.ret = Ret(TRUE, NoJobId, "", NoNode, NoError)])
            /\ tunnelProcess' = 0
            /\ tunnelProcess # 0 => procs'[tunnelProcess].st \notin {"starting", "listening"}
            /\ Len(procs') = Len(procs)
            /\ \A p \in 1..Len(procs) : p # tunnelProcess => procs'[p].st = procs[p].st]_vars

\* C6 witness: two stopTunnelAction calls have returned success, the first of
\* which ended a running tunnel, and the handle is empty.
C6_Witness ==
    /\ tunnelProcess = 0
    /\ \E p \in 1..Len(procs) : procs[p].st = "killed"
    /\ \E c \in DOMAIN calls :
        c.op = "stopTunnelAction" /\ c.ph = "done" /\ c.ret.success /\ calls[c] = 2


\* C7: a stop of the manager invoked in the Ready state (ready / active) ends
\* in the stopped state (idle / inactive), with no tunnel subprocess left
\* running, and has issued the cancellation of the named job exactly once.
C7_StopFromReady ==
    [][\A c \in DOMAIN calls :
        (handleStopResume(c) \/ handleStopServerResume(c)) /\ c.from \in {"ready", "active"} =>
            /\ status' \in {"idle", "inactive"}
            /\ \A p \in 1..Len(procs) : ~Alive(p)
            /\ c.cancels = 1]_vars

\* the states in which start() is accepted: Idle, Error, Stopped
Startable ==
    \/ kind = "llm" /\ status \in {"idle", "error", "stopped"}
    \/ kind = "notebook" /\ status = "inactive" /\ ~starting
\* the number of submission calls in flight
NumSubmit(cs) ==
    BagCardinality([c \in {d \in DOMAIN cs : d.op \in SubmitOps} |-> cs[c]])

C9_OneJobOneTunnel ==
    /\ Cardinality({j \in 1..Len(jobs) :
                        jobs[j].name = JobName(kind) /\ jobs[j].st \in NonTerminal}) <= 1
    /\ Cardinality({p \in 1..Len(procs) : procs[p].st = "listening"}) <= 1

\* C10: once the LLMManager is back in idle after a stop, the result of a call
\* that was in flight (submission, status poll, tunnel start) changes neither
\* the status nor the job id nor the node.
C10_StaleResultDiscarded ==
    [][\A c \in DOMAIN calls :
        (startServerResume(c) \/ pollResume(c) \/ initTunnelResume(c)) /\ status = "idle" =>
            UNCHANGED <<status, jobId, node>>]_vars


\* the status polls in flight for job id
PollsInFlight(id) ==
    BagCardinality([c \in {d \in DOMAIN calls : d.op \in CheckOps /\ d.arg = id} |-> calls[c]])

\* C11: the status polls of one job never overlap: at most one status query
\* of a job is in flight (issued, its result not yet applied) at any time.
C11_PollsSequential ==
    \A c \in DOMAIN calls : c.op \in CheckOps => PollsInFlight(c.arg) <= 1

\* the poll result r reports the job in state st
Reports(r, st) == r.success /\ r.state = st

\* C12: a poll of the polled job that returns a terminal state (COMPLETED,
\* FAILED, CANCELLED, TIMEOUT, NODE_FAIL) ends the polling of that job: the
\* LLMManager leaves queued, to error for the terminal-failure states, and the
\* NotebookManager clears the interval of the job.
C12_TerminalStopsPolling ==
    [][\A c \in DOMAIN calls : \A st \in Terminal :
        /\ pollResume(c) /\ status = "queued" /\ jobId = c.arg /\ Reports(c.ret, st) =>
              /\ status' # "queued"
              /\ st # "COMPLETED" => status' = "error"
        /\ nbPollResume(c) /\ c.arg \in pollInterval /\ Reports(c.ret, st) =>
              c.arg \notin pollInterval']_vars


\* the poll result r reports a running job with its node
ReportsRunning(r) == Reports(r, "RUNNING") /\ r.node # NoNode
\* the poll result r reports a job that waits: pending, or running without a node
ReportsWaiting(r) ==
    \/ Reports(r, "PENDING")
    \/ Reports(r, "RUNNING") /\ r.node = NoNode

\* C13: a poll result applied in queued (NotebookManager: while the interval of
\* the job is live) leaves the manager waiting when the job is pending or runs
\* without a node, and exactly when it reports RUNNING with a node the manager
\* moves on (LLMManager: to starting_tunnel, recording the node; NotebookManager:
\* the interval is cleared) and calls startTunnelAction with the reported node.
C13_PollTransitions ==
    [][\A c \in DOMAIN calls :
        /\ pollResume(c) /\ status = "queued" =>
              /\ ReportsRunning(c.ret) =>
                    /\ status' = "starting_tunnel" /\ node' = c.ret.node
                    /\ calls' = Add(Drop(c), Call("startTunnelAction", NoJobId, c.ret.node, ""))
              /\ ReportsWaiting(c.ret) => UNCHANGED <<status, node>> /\ calls' = Drop(c)
              /\ status' = "starting_tunnel" => ReportsRunning(c.ret)
        /\ nbPollResume(c) /\ c.arg \in pollInterval =>
              /\ ReportsRunning(c.ret) =>
                    /\ c.arg \notin pollInterval'
                    /\ calls' = Add(Drop(c), Call("startTunnelAction", NoJobId, c.ret.node, ""))
              /\ ReportsWaiting(c.ret) => UNCHANGED <<pollInterval, starting>> /\ calls' = Drop(c)
              /\ (\E d \in DOMAIN calls' : d.op = "startTunnelAction" /\ d \notin DOMAIN calls)
                    => ReportsRunning(c.ret)]_vars

\* C13 witness: the LLMManager is in starting_tunnel with the node of the
\* running job recorded, and startTunnelAction was called with that node.
C13_Witness ==
    /\ status = "starting_tunnel" /\ node \in Nodes
    /\ \E j \in 1..Len(jobs) : jobs[j].st = "RUNNING" /\ jobs[j].node = node
    /\ \E c \in DOMAIN calls : c.op = "startTunnelAction" /\ c.nd = node

\* C14: a poll that reports COMPLETED when no node was ever observed for the
\* job takes the LLMManager to an outcome of its own: neither ready nor the
\* error status used for FAILED, CANCELLED and TIMEOUT.
C14_FinishedWithoutServing ==
    [][\A c \in DOMAIN calls :
        pollResume(c) /\ status = "queued" /\ jobId = c.arg /\ node = NoNode
                      /\ Reports(c.ret, "COMPLETED")
            => status' \notin {"ready", "error"}]_vars


\* C15: a cancel invoked in submitting, queued, starting_tunnel or ready ends
\* in the stopped state with the tunnel handle empty and has issued the
\* cancellation of the remote job, whatever job id or node is known.
C15_CancelFromAnyState ==
    [][\A c \in DOMAIN calls :
        handleStopResume(c) /\ c.from \in {"submitting", "queued", "starting_tunnel", "ready"} =>
            /\ status' = "idle"
            /\ c.cancels >= 1]_vars

\* C16: in idle no cancel is offered, the job id and the node are absent, and
\* a handleStop that resumes in idle changes neither status, job id nor node,
\* has issued no remote command and changes no job.
C16_CancelFromIdle ==
    [][status = "idle" =>
        /\ jobId = NoJobId /\ node = NoNode
        /\ ~(ENABLED handleStop)
        /\ \A c \in DOMAIN calls : handleStopResume(c) =>
              /\ UNCHANGED <<status, jobId, node>>
              /\ jobs' = jobs
              /\ c.cancels = 0]_vars

\* C16 witness: a session was started and cancelled, the manager is idle, and
\* a second handleStop is about to resume.
C16_Witness ==
    /\ status = "idle" /\ submits >= 1
    /\ \E c \in DOMAIN calls : Returned(c, "stopTunnelAction")


\* C17: the step that issues the cancellation of the job by name (scancel in
\* stopNotebookJob, reached from Stop Server and from the start of a
\* submission) leaves the tunnel handle empty and the subprocess it held not
\* running: the teardown comes first.
C17_TeardownBeforeCancel ==
    [][\A c \in DOMAIN calls : \A d \in DOMAIN calls' :
        d = [c EXCEPT !.ph = "cancel", !.cancels = c.cancels + 1] /\ (d \notin DOMAIN calls \/ calls'[d] > calls[d]) =>
            /\ tunnelProcess' = 0
            /\ tunnelProcess # 0 => procs'[tunnelProcess].st \notin {"starting", "listening"}]_vars

\* C17 witness: Stop Server of an active session has killed the listening
\* tunnel and its cancellation is issued.
C17_Witness ==
    /\ tunnelProcess = 0
    /\ \E p \in 1..Len(procs) : procs[p].st = "killed" /\ procs[p].promise = "resolved"
    /\ \E c \in DOMAIN calls :
          c.op = "stopNotebookJob" /\ c.ph = "cancel" /\ c.from = "active" /\ c.cancels = 1

\* C18: every submit command is issued after the same submit operation has
\* issued the cancellation of the jobs of the same name.
C18_CancelBeforeSubmit ==
    [][\A c \in DOMAIN calls :
        (submitLLMJob(c) \/ submitNotebookJob(c)) => c.cancels >= 1]_vars


\* C19: a startTunnelAction call does not stay pending once its subprocess is
\* gone: when the subprocess has closed, with any exit code, the call that
\* waited for its marker has completed.
C19_ExitBeforeMarkerFails ==
    \A c \in DOMAIN calls : c.op = "startTunnelAction" /\ c.ph = "wait" => procs[c.p].st # "closed"

\* a job of the session's name runs on a node
JobRuns == \E j \in 1..Len(jobs) : jobs[j].name = JobName(kind) /\ jobs[j].st = "RUNNING"
\* a stop that cancels the job by name is offered: Stop Server of the NotebookManager
StopCancels == kind = "notebook" /\ status = "active" /\ ~stopping

\* C20: when a tunnel start has failed while the job runs, the state the
\* manager is left in offers a stop that issues the cancellation of the job.
C20_OrphanCanBeStopped ==
    [][\A c \in DOMAIN calls :
        (initTunnelResume(c) \/ nbTunnelResume(c)) /\ ~c.ret.success /\ JobRuns => StopCancels']_vars


\* C21: a failed status poll of the polled job (not found, connection error)
\* applied in queued moves the LLMManager to error.
C21_PollFailureSurfaces ==
    [][\A c \in DOMAIN calls :
        pollResume(c) /\ status = "queued" /\ jobId = c.arg /\ ~c.ret.success
            => status' = "error"]_vars

\* a start is offered by the view of the manager
StartOffered ==
    \/ kind = "llm" /\ startEnabled
    \/ kind = "notebook" /\ nbStartEnabled

\* C22: when a submission has failed, the manager is left with no job id
\* recorded and in a state whose view offers Start again.
C22_FailedSubmitIsIdle ==
    [][\A c \in DOMAIN calls :
        (startServerResume(c) \/ handleStartServerResume(c))
            /\ ~(c.ret.success /\ c.ret.jobId # NoJobId)
            => jobId' = NoJobId /\ StartOffered']_vars

\* C23: in error the LLMManager holds a non-empty reason, and only a stop
\* (handleStop) takes it out of error.
C23_ErrorIsStable ==
    [][status = "error" =>
        /\ error # NoError
        /\ status' # "error" => \E c \in DOMAIN calls : handleStopResume(c)]_vars


\* C24: every tunnel subprocess is given six arguments, which the script reads
\* as the login host, user and secret, a node as target host, and the service
\* port of the job kind as target port and as local port.
C24_TunnelArguments ==
    \A p \in 1..Len(procs) :
        LET a == scriptArgs(procs[p].args) IN
        /\ Len(procs[p].args) = 6
        /\ a.host = credentials.host /\ a.username = credentials.username
        /\ a.password = credentials.password
        /\ a.remoteHost \in Nodes
        /\ a.remotePort = ServicePort(kind) /\ a.localPort = ServicePort(kind)

\* C25: a successful tunnel result takes the manager to ready (active) only
\* when the subprocess the tunnel handle refers to is not still starting.
C25_ReadyAfterMarker ==
    [][\A c \in DOMAIN calls :
        (initTunnelResume(c) \/ nbTunnelResume(c)) /\ c.ret.success /\ tunnelProcess # 0
            => procs[tunnelProcess].st # "starting"]_vars

\* C26: the tunnel handle refers to every tunnel subprocess that is alive.
C26_HandleTracksLiveTunnel ==
    \A p \in 1..Len(procs) : Alive(p) => tunnelProcess = p


TunnelOk == Ret(TRUE, NoJobId, "", NoNode, NoError)
TunnelFailed == Ret(FALSE, NoJobId, "", NoNode, "Tunnel process exited")

\* C27: a startTunnelAction call that waits for its subprocess completes only
\* in a step in which that subprocess prints the marker, and then with
\* success, or closes, and then with failure; error-stream text and every other
\* step leave it pending.  A call that does not wait returns success only when
\* the tunnel handle is set.
C27_SuccessOnlyOnMarker ==
    [][\A c \in DOMAIN calls : c.op = "startTunnelAction" =>
        /\ c.ph = "wait" /\ Count(calls', c) < Count(calls, c) =>
              \/ /\ procs[c.p].st = "starting" /\ procs'[c.p].st = "listening"
                 /\ Completes(c, TunnelOk)
              \/ /\ procs[c.p].st # "closed" /\ procs'[c.p].st = "closed"
                 /\ Completes(c, TunnelFailed)
        /\ startTunnelAction(c) => (Completes(c, TunnelOk) <=> tunnelProcess # 0)]_vars

\* C27 witness: the subprocess is starting, it has written error text and no
\* marker, and the call that spawned it is still pending.
C27_Witness ==
    \E c \in DOMAIN calls :
        /\ c.op = "startTunnelAction" /\ c.ph = "wait"
        /\ procs[c.p].st = "starting" /\ procs[c.p].stderr /\ procs[c.p].promise = "pending"


C29_FailureExitsNonZero ==
    script.ph = "exited" /\ script.cause \in {"args", "ssh", "bind"} => script.code = "1"


\* the connections of script value sc that were given a channel
Forwarded(sc) == {i \in 1..Len(sc.socks) : sc.socks[i].chan # 0}

\* every forwarded connection has a channel of its own, there are as many
\* channels as forwarded connections, and bytes stay within the pair
Isolated(sc) ==
    /\ \A i, j \in Forwarded(sc) : i # j => sc.socks[i].chan # sc.socks[j].chan
    /\ \A i \in Forwarded(sc) : sc.socks[i].chan \in 1..Len(sc.chans)
    /\ Len(sc.chans) = Cardinality(Forwarded(sc))
    /\ \A ch \in 1..Len(sc.chans) :
           sc.chans[ch].up \subseteq {i \in Forwarded(sc) : sc.socks[i].chan = ch}
    /\ \A i \in 1..Len(sc.socks) :
           sc.socks[i].down \subseteq {sc.socks[i].chan} \ {0}

\* C30: every accepted local connection gets its own forwarding channel: N
\* forwarded connections have N distinct channels, the bytes of a connection
\* reach only its own channel and the bytes of a channel only its own
\* connection, and a failure to open the channel of one connection ends that
\* connection only: the other connections, the channels and the listener stay
\* as they were.
C30_ChannelPerConnection ==
    [][/\ Isolated(script) /\ Isolated(script')
       /\ \A i \in 1..Len(script.socks) :
              ForwardErr(i) =>
                  /\ script'.socks[i].st = "ended"
                  /\ \A j \in 1..Len(script.socks) :
                         j # i => script'.socks[j] = script.socks[j]
                  /\ script'.chans = script.chans
                  /\ script'.ph = "listening" /\ script'.ssh = script.ssh]_vars

C30_Witness ==
    /\ Len(script.socks) = 3
    /\ \E i, j, k \in 1..3 :
           /\ i # j
           /\ script.socks[i].st = "piped" /\ script.socks[j].st = "piped"
           /\ script.socks[k].st = "ended" /\ script.socks[k].chan = 0
           /\ script.chans[script.socks[i].chan].up = {i}
           /\ script.chans[script.socks[j].chan].up = {j}
           /\ script.socks[i].down = {script.socks[i].chan}
           /\ script.socks[j].down = {script.socks[j].chan}


\* the status check has returned
Checked == query.ph \in {"done", "applied"}

\* C31: when the live queue query exits with code 0 and prints nothing, the
\* status check returns success with state COMPLETED and no node.
C31_EmptyLiveIsCompleted ==
    Checked /\ ~query.live.thrown /\ query.live.code = 0 /\ query.live.stdout = <<>>
        => /\ query.ret.success
           /\ query.ret.state = "COMPLETED"
           /\ query.ret.node = NoNode

C31_Witness ==
    /\ query.ph = "done" /\ ~query.live.thrown /\ query.live.code = 0
    /\ query.live.stdout = <<>> /\ query.cmds = <<"squeue">> /\ query.ret.success

\* C32: the historical query is issued exactly when the live query exits
\* non-zero; its result is then the first word of the historical output with
\* no node, and the failure "Job not found" exactly when the historical
\* output is empty.
C32_HistoricalFallback ==
    Checked =>
        /\ ("sacct" \in {query.cmds[i] : i \in 1..Len(query.cmds)})
               <=> (~query.live.thrown /\ query.live.code # 0)
        /\ ~query.live.thrown /\ query.live.code # 0 /\ ~query.hist.thrown =>
               /\ Split(query.hist.stdout) # <<>> =>
                      /\ query.ret.success
                      /\ query.ret.state = Split(query.hist.stdout)[1]
                      /\ query.ret.node = NoNode
               /\ (~query.ret.success /\ query.ret.error = "Job not found")
                      <=> Split(query.hist.stdout) = <<>>

C32_Witness ==
    /\ query.ph = "done" /\ query.cmds = <<"squeue", "sacct">>
    /\ query.live.code = 1 /\ query.live.stdout # <<>>
    /\ query.hist.stdout = <<" ", "SUSPENDED", "\n">>
    /\ query.ret.success /\ query.ret.state = "SUSPENDED"

\* the states of a job the specification names
Canonical ==
    {"PENDING", "RUNNING", "COMPLETED", "FAILED", "CANCELLED", "TIMEOUT", "NODE_FAIL", "UNKNOWN"}

\* C33: every state a successful status check returns is one of PENDING,
\* RUNNING, COMPLETED, FAILED, CANCELLED, TIMEOUT, NODE_FAIL, UNKNOWN: a
\* scheduler state outside the first seven is returned as UNKNOWN.
C33_StatesAreCanonical ==
    Checked /\ query.ret.success => query.ret.state \in Canonical

\* the live query printed a line without a node word or with the placeholder
NoNodeLine ==
    /\ ~query.live.thrown /\ query.live.code = 0
    /\ Len(Split(query.live.stdout)) >= 1
    /\ Len(Split(query.live.stdout)) = 1 \/ Split(query.live.stdout)[2] = "(N/A)"

\* C34: when the live queue line carries the placeholder of an unassigned
\* node, or no node word at all, the status check returns no node, and the
\* poll callback does not move to starting_tunnel, also for state RUNNING.
C34_UnassignedNodeIsAbsent ==
    /\ Checked /\ NoNodeLine => query.ret.node = NoNode
    /\ query.ph = "applied" /\ NoNodeLine => query.next # "starting_tunnel"

C34_Witness ==
    /\ query.ph = "applied"
    /\ query.live.stdout = <<"RUNNING", " ", "(N/A)">>
    /\ query.live.code = 0
    /\ query.ret.success /\ query.ret.state = "RUNNING" /\ query.next = "queued"


\* the server actions that run a command on the cluster
RemoteOps == SubmitOps \cup CheckOps \cup (StopOps \ {"stopTunnelAction"})

\* the remote calls of the session that were issued and have not returned
RemoteInFlight ==
    BagCardinality([c \in {d \in DOMAIN calls : d.op \in RemoteOps /\ d.ph # "done"}
                       |-> calls[c]])

\* C35: at most one remote call (submission, status query, job cancellation)
\* of the session is in flight at any time.
C35_OneRemoteCallInFlight == RemoteInFlight <= 1


\* the steps of submission i in the log, in their order
RECURSIVE StepsOf(_, _)
StepsOf(log, i) ==
    IF log = <<>> THEN <<>>
    ELSE IF Head(log)[1] = i THEN <<Head(log)[2]>> \o StepsOf(Tail(log), i)
    ELSE StepsOf(Tail(log), i)

\* C36: a submission writes the rendered script to a remote path, submits
\* that path and deletes it, in this order and whether or not the submit
\* succeeded, and two submissions never use the same remote path.
C36_WriteSubmitDelete ==
    /\ \A i \in 1..Len(remote.cmds) :
           remote.cmds[i].pc = "done" =>
               StepsOf(remote.log, i) \in {<<"write", "submit", "delete">>,
                                           <<"write", "submit failed", "delete">>}
    /\ \A i, j \in 1..Len(remote.cmds) : i # j => remote.cmds[i].file # remote.cmds[j].file


\* C37: when LLMManager is unmounted while its status is ready, its cleanup
\* calls stopTunnelAction; unmounted in any other status, it does not.
C37_UnmountStopsTunnel ==
    [][unmount =>
          IF status = "ready"
          THEN \E c \in DOMAIN calls' :
                   c.op = "stopTunnelAction" /\ Count(calls', c) > Count(calls, c)
          ELSE calls' = calls]_vars


InvalidModel == Ret(FALSE, NoJobId, "", NoNode, "Invalid model selection")

\* C38: submitNotebookJob called with a model id outside the allowed list
\* returns a failure and changes nothing: the step that takes the call up
\* completes it with the failure, issues no cancellation and no submission,
\* and leaves the jobs, the tunnel handle and the tunnel subprocesses as
\* they are.
C38_InvalidModelChangesNothing ==
    [][\A c \in DOMAIN calls :
           /\ c.op = "submitNotebookJob" /\ c.arg \notin ALLOWED_MODELS
           /\ c.ph = "sent" /\ Count(calls', c) < Count(calls, c)
           => /\ Completes(c, InvalidModel)
              /\ UNCHANGED <<jobs, tunnelProcess, procs>>]_vars

C38_Witness ==
    /\ tunnelProcess # 0 /\ procs[tunnelProcess].st = "listening"
    /\ jobs = <<>>
    /\ \E c \in DOMAIN calls :
           /\ c.op = "submitNotebookJob" /\ c.arg = "gpt2"
           /\ c.ph = "done" /\ c.ret = InvalidModel /\ c.cancels = 0


\* C40: in ChatInterface every send of a non-blank input appends one user
\* message with that input and then one assistant message, the loading flag
\* is set exactly while the query is awaited, whatever the query produces,
\* and a send of a blank input appends nothing and issues no query.
C40_SendAppendsPair ==
    /\ Len(chat.sent) + chat.blank = chat.sends
    /\ \A i \in 1..Len(chat.sent) : Trim(chat.sent[i]) # <<>>
    /\ Len(chat.messages) = 2 * Len(chat.sent) - (IF chat.ph = "waiting" THEN 1 ELSE 0)
    /\ \A i \in 1..Len(chat.messages) :
           IF i % 2 = 1
           THEN chat.messages[i] = [role |-> "user", content |-> chat.sent[(i + 1) \div 2]]
           ELSE chat.messages[i].role = "assistant"
    /\ chat.loading <=> chat.ph = "waiting"

C40_Witness ==
    /\ chat.sends = 3 /\ chat.blank = 1 /\ ~chat.loading
    /\ Len(chat.messages) = 4
    /\ chat.messages[2].content = <<"Failed to get response.">>
    /\ chat.messages[4].content = <<"Error: ", "HTTP 500">>


Transient == {"submitting", "queued", "starting_tunnel"}
Settled == {"ready", "error", "idle"}

\* C39: after a start, when every call returns, the scheduler moves the job
\* on and the tunnel subprocess prints the marker or exits, the manager
\* eventually leaves submitting, queued and starting_tunnel and reaches
\* ready, error or the stopped state.
C39_EventuallySettles == [](status \in Transient => <>(status \in Settled))


====
